---- MODULE Spec2Model ----
(***************************************************************************)
(* A model of blacksheep/server/openapi/v3.py: the OpenAPIHandler that     *)
(* resolves Python types to OpenAPI schemas, keeps the registry of named   *)
(* component schemas, builds the responses, parameters and request body of *)
(* the request handlers and generates the document of the application.     *)
(*                                                                         *)
(* Python values are modelled as follows.                                  *)
(*   - an Optional value is a sequence of length <= 1: << >> is None and   *)
(*     <<v>> is the value v;                                               *)
(*   - a dict is a function; an empty dict and None are both << >> where   *)
(*     the code treats them alike (`if d`);                                *)
(*   - a type is a record with a field k: a class, a typing alias          *)
(*     (typing.Union[...], typing.List[...], Box[Item]), a type variable   *)
(*     or a forward reference (a str);                                     *)
(*   - an exception is the name of its class, "none" when nothing raised.  *)
(* typing aliases behave as on Python 3.7 - 3.9: they have no __name__.    *)
(***************************************************************************)
EXTENDS Integers, Sequences, FiniteSets, TLC

VARIABLES
    schemas,    \* self.components.schemas: name -> Schema
    refs,       \* self._objects_references: type or type name -> Reference
    warned,     \* the warnings emitted so far (a set of field names)
    proposed,   \* history: name -> how many _register_schema calls proposed it
    resolved,   \* history: type -> the value its first normal resolution returned
    docs,       \* APIDocsHandler._handlers_docs: handler -> Optional[EndpointDocs]
    config,     \* the settings of the handler, fixed by the application at start
    passes,     \* history: the registry and the docs at the start and end of each generation
    registered, \* history: type -> the Reference its first registration returned
    last        \* the call made last, with its result

vars == <<schemas, refs, warned, proposed, resolved, docs, config, passes, registered,
          last>>

(***************************************************************************)
(* Bounds of the model.                                                    *)
(***************************************************************************)
\* the interpreter's recursion limit, counted in nested get_schema_by_type calls
MaxDepth == 6
\* the classes of the application that are all called Foo (one per module)
MaxHomonyms == 3
\* register_schema_for_type calls that propose one name
MaxRegistrations == 2
\* generate_documentation calls
MaxPasses == 2

Range(s) == {s[i] : i \in DOMAIN s}

(***************************************************************************)
(* Types.                                                                  *)
(***************************************************************************)
Cls(n) == [k |-> "cls", n |-> n, module |-> 0]
\* the class called n of the i-th module
ClsOf(i, n) == [k |-> "cls", n |-> n, module |-> i]
Special(n) == [k |-> "special", n |-> n]
Alias(origin, args) == [k |-> "alias", origin |-> origin, args |-> args]
TypeVar(n) == [k |-> "typevar", n |-> n]
ForwardRef(n) == [k |-> "str", n |-> n]

NoneType == Cls("NoneType")
int == Cls("int")
str == Cls("str")
float == Cls("float")
bool == Cls("bool")
list == Cls("list")
Union(args) == Alias(Special("Union"), args)
Optional(t) == Union(<<t, NoneType>>)
List(t) == Alias(list, <<t>>)
T == TypeVar("T")

FieldInfo(name, type) == [name |-> name, type |-> type]

(***************************************************************************)
(* The classes of the application.  Each is described by what the          *)
(* reflection calls of the code return for it.                             *)
(***************************************************************************)
\* dataclasses.fields(cls), in declaration order, for the dataclasses
DataclassFields ==
    [Item   |-> <<FieldInfo("id", int), FieldInfo("name", Optional(str))>>,
     Other  |-> <<FieldInfo("note", Optional(str))>>,
     Order  |-> <<FieldInfo("item", ForwardRef("Item")), FieldInfo("count", int)>>,
     Node   |-> <<FieldInfo("value", int), FieldInfo("next", ForwardRef("Node"))>>,
     BadRec |-> <<FieldInfo("id", int), FieldInfo("x", Union(<<int, str>>))>>,
     Box    |-> <<FieldInfo("item", T), FieldInfo("note", Optional(str))>>,
     BadBox |-> <<FieldInfo("item", T), FieldInfo("x", Union(<<int, str, NoneType>>))>>,
     Linked |-> <<FieldInfo("value", T), FieldInfo("next", ForwardRef("Linked"))>>,
     Outer  |-> <<FieldInfo("inner", Alias(Cls("Box"), <<T>>))>>,
     Foo    |-> <<FieldInfo("id", int)>>]

\* the evaluated annotation of each field of the classes with forward references
TypeHints ==
    [Order  |-> [item |-> Cls("Item"), count |-> int],
     Node   |-> [value |-> int, next |-> Cls("Node")]]

\* typing.get_type_hints(cls)
get_type_hints(object_type) == TypeHints[object_type.n]

\* cls.__parameters__ of the generic classes
Parameters == [Box |-> <<T>>, BadBox |-> <<T>>, Linked |-> <<T>>, Outer |-> <<T>>]

\* the members' values of the enumerations, in declaration order
IntEnumValues == [Color |-> <<1, 2, 3>>]
EnumValues == [Mood |-> <<"a", "b">>, Level |-> <<10>>]

is_dataclass(t) == t.k = "cls" /\ t.n \in DOMAIN DataclassFields

\* dataclasses.fields(cls): the i-th class Foo has i fields f1 .. fi after id
dataclass_fields(object_type) ==
    DataclassFields[object_type.n] \o
    [j \in 1..object_type.module |-> FieldInfo("f" \o ToString(j), Optional(int))]
isclass(t) == t.k = "cls"

(***************************************************************************)
(* Schemas and References (openapidocs.v3).                                *)
(***************************************************************************)
Schema ==
    [type |-> << >>, format |-> << >>, nullable |-> << >>, required |-> << >>,
     properties |-> << >>, items |-> << >>, enum |-> << >>]
Reference(ref) == [ref |-> ref]
isSchema(v) == "type" \in DOMAIN v
isReference(v) == "ref" \in DOMAIN v
RefTo(name) == Reference("#/components/schemas/" \o name)

\* APIDocsHandler._types_schemas: the types registered with an explicit schema
_types_schemas ==
    (Cls("Custom") :> [Schema EXCEPT !.type = <<"string">>, !.format = <<"custom">>])

(***************************************************************************)
(* The state the resolver reads and writes, threaded through the calls:    *)
(* st.schemas, st.refs, st.warned, st.proposed.  A call returns the state  *)
(* it leaves, its value, and the exception it raised.                      *)
(***************************************************************************)
Return(st, val) == [st |-> st, val |-> val, exc |-> "none"]
Raise(st, exc) == [st |-> st, val |-> << >>, exc |-> exc]

\* the rest of a method after a call: the exception of the call propagates
Then(r, Rest(_)) == IF r.exc # "none" THEN r ELSE Rest(r)

\* the rest of a method after get_type_name
Named(st, type_name, Rest(_)) ==
    IF type_name.exc # "none" THEN Raise(st, type_name.exc) ELSE Rest(type_name.name)

\* the return of a method that may change the docs of the handlers
Result(st, dc, val, exc) == [st |-> st, dc |-> dc, val |-> val, exc |-> exc]

\* the rest of such a method after a call of the resolver
ThenDocs(r, dc, Rest(_)) ==
    IF r.exc # "none" THEN Result(r.st, dc, << >>, r.exc) ELSE Rest(r)

\* the rest of a method after check_union
Checked(st, u, Rest(_)) == IF u.exc # "none" THEN Raise(st, u.exc) ELSE Rest(u)

\* a local variable
Let(value, Rest(_)) == Rest(value)

\* the dict key of a type name in _objects_references
NameKey(name) == [k |-> "name", n |-> name]

get_origin(object_type) ==
    IF object_type.k = "alias" THEN <<object_type.origin>> ELSE << >>

\* a check that takes every union for an Optional
check_union_lenient(object_type) ==
    IF object_type.k = "alias" /\ object_type.origin = Special("Union")
    THEN [exc |-> "none", is_optional |-> TRUE,
          child_type |-> LET i == CHOOSE i \in DOMAIN object_type.args :
                                    /\ object_type.args[i] # NoneType
                                    /\ \A j \in 1..(i - 1) :
                                           object_type.args[j] = NoneType
                         IN object_type.args[i]]
    ELSE [exc |-> "none", is_optional |-> FALSE, child_type |-> object_type]

\* check_union: (is_optional, child_type), or the exception
check_union(object_type) ==
    IF object_type.k = "alias" /\ object_type.origin = Special("Union")
    THEN IF NoneType \notin Range(object_type.args) \/ Len(object_type.args) > 2
         THEN [exc |-> "UnsupportedUnionTypeException", is_optional |-> FALSE,
               child_type |-> object_type]
         ELSE [exc |-> "none", is_optional |-> TRUE,
               child_type |-> LET i == CHOOSE i \in DOMAIN object_type.args :
                                         /\ object_type.args[i] # NoneType
                                         /\ \A j \in 1..(i - 1) :
                                                object_type.args[j] = NoneType
                              IN object_type.args[i]]
    ELSE [exc |-> "none", is_optional |-> FALSE, child_type |-> object_type]

RECURSIVE get_type_name(_, _)
RECURSIVE get_type_name_for_generic(_, _)
RECURSIVE JoinNames(_, _, _)
RECURSIVE NextFreeName(_, _, _)
RECURSIVE get_schema_by_type(_, _, _, _)
RECURSIVE _get_schema_by_type(_, _, _, _)
RECURSIVE _get_schema_for_class(_, _, _)
RECURSIVE ClassFields(_, _, _, _, _, _, _)
RECURSIVE _try_get_schema_for_iterable(_, _, _, _)
RECURSIVE _try_get_schema_for_generic(_, _, _, _)
RECURSIVE GenericFields(_, _, _, _, _, _, _, _, _)

\* "And".join(get_type_name(arg, ctx) for arg in args), from the i-th argument
JoinNames(args, i, context_type_args) ==
    IF i > Len(args) THEN [exc |-> "none", name |-> ""]
    ELSE Then(get_type_name(args[i], context_type_args), LAMBDA head :
         Then(JoinNames(args, i + 1, context_type_args), LAMBDA tail :
              [exc |-> "none",
               name |-> IF i = Len(args) THEN head.name
                        ELSE head.name \o "And" \o tail.name]))

\* a generic named after its origin alone
get_type_name_for_generic_origin_only(object_type, context_type_args) ==
    get_type_name(object_type.origin, << >>)

get_type_name_for_generic(object_type, context_type_args) ==
    Then(JoinNames(object_type.args, 1, context_type_args), LAMBDA args_repr :
    Then(get_type_name(object_type.origin, << >>), LAMBDA origin :
         [exc |-> "none", name |-> origin.name \o "Of" \o args_repr.name]))

\* hasattr(object_type, "__name__"): classes and type variables
HasName(object_type) == object_type.k \in {"cls", "typevar"}

get_type_name(object_type, context_type_args) ==
    LET t == IF object_type \in DOMAIN context_type_args
             THEN context_type_args[object_type] ELSE object_type
    IN IF HasName(t) THEN [exc |-> "none", name |-> t.n]
       ELSE IF t.k = "alias" THEN get_type_name_for_generic(t, context_type_args)
       ELSE [exc |-> "ValueError", name |-> ""]

\* the while loop of _register_schema
NextFreeName(names, base_name, counter) ==
    LET name == base_name \o ToString(counter)
    IN IF name \in names THEN NextFreeName(names, base_name, counter + 1) ELSE name

\* a registration that overwrites the entry stored under the name
_register_schema_overwrite(st, schema, name) ==
    LET count == IF name \in DOMAIN st.proposed THEN st.proposed[name] ELSE 0
    IN Return([st EXCEPT !.schemas = (name :> schema) @@ st.schemas,
                         !.proposed = (name :> (count + 1)) @@ st.proposed],
              RefTo(name))

_register_schema(st, schema, name) ==
    LET final == IF name \in DOMAIN st.schemas
                 THEN NextFreeName(DOMAIN st.schemas, name, 1)
                 ELSE name
        count == IF name \in DOMAIN st.proposed THEN st.proposed[name] ELSE 0
    IN Return([st EXCEPT !.schemas = (final :> schema) @@ st.schemas,
                         !.proposed = (name :> (count + 1)) @@ st.proposed],
              RefTo(final))

\* dict[key] = value
Store(d, key, value) == (key :> value) @@ d

(***************************************************************************)
(* The pydantic models of the application.  Each field is described by its *)
(* entry in cls.schema()["properties"] and by its entry in cls.__fields__. *)
(***************************************************************************)
ModelField(name, schema, allow_none, outer_type_) ==
    [name |-> name, schema |-> schema,
     field_info |-> <<[allow_none |-> allow_none, outer_type_ |-> outer_type_]>>]

\* class Account(BaseModel): id: int; nick: Optional[str]; score: Optional[float];
\* active: Optional[bool]; tags: List[str]; owner: Item
PydanticModels ==
    [Account |->
        <<ModelField("id", [type |-> "integer"], FALSE, int),
          ModelField("nick", [type |-> "string"], TRUE, str),
          ModelField("score", [type |-> "number"], TRUE, float),
          ModelField("active", [type |-> "boolean"], TRUE, bool),
          ModelField("tags", [type |-> "array"], FALSE, List(str)),
          ModelField("owner", [ref |-> "#/definitions/Item"], FALSE, Cls("Item"))>>]

\* a Schema instance given as the type of a field
SchemaType(schema) == [k |-> "schema", schema |-> schema]

\* PydanticModelTypeHandler.handles_type
handles_type(object_type) ==
    object_type.k = "cls" /\ object_type.n \in DOMAIN PydanticModels

_open_api_v2_field_schema_to_type(field_info, schema) ==
    IF "ref" \in DOMAIN schema THEN field_info[1].outer_type_
    ELSE
    LET value_type == schema.type
        nullable == IF field_info # << >> THEN field_info[1].allow_none ELSE FALSE
    IN IF value_type = "string"
       THEN SchemaType([Schema EXCEPT !.type = <<"string">>, !.nullable = <<nullable>>])
       ELSE IF value_type = "boolean" THEN bool
       ELSE IF value_type = "file"
       THEN SchemaType([Schema EXCEPT !.type = <<"string">>, !.format = <<"binary">>])
       ELSE IF value_type = "number"
       THEN SchemaType([Schema EXCEPT !.type = <<"number">>, !.format = <<"float">>,
                                      !.nullable = <<nullable>>])
       ELSE IF value_type = "integer"
       THEN SchemaType([Schema EXCEPT !.type = <<"integer">>, !.format = <<"int64">>,
                                      !.nullable = <<nullable>>])
       ELSE IF value_type = "array"
       THEN IF field_info # << >> THEN field_info[1].outer_type_ ELSE list
       ELSE SchemaType(Schema)

\* PydanticModelTypeHandler.get_type_fields
get_type_fields(object_type) ==
    LET properties == PydanticModels[object_type.n]
    IN [i \in DOMAIN properties |->
           FieldInfo(properties[i].name,
                     _open_api_v2_field_schema_to_type(properties[i].field_info,
                                                       properties[i].schema))]

_can_handle_class_type(object_type) ==
    \/ is_dataclass(object_type)
    \/ handles_type(object_type)
    \/ object_type \in DOMAIN _types_schemas

_handle_type_having_explicit_schema(st, object_type) ==
    Named(st, get_type_name(object_type, << >>), LAMBDA type_name :
    Then(_register_schema(st, _types_schemas[object_type], type_name), LAMBDA r :
         Return([r.st EXCEPT !.refs =
                    Store(Store(r.st.refs, object_type, r.val), NameKey(type_name), r.val)],
                r.val)))

\* an object schema registered without caching its Reference
_handle_object_type_uncached(st, object_type, properties, required, context_type_args) ==
    Named(st, get_type_name(object_type, context_type_args), LAMBDA type_name :
          _register_schema(
              st,
              [Schema EXCEPT !.type = <<"object">>,
                             !.required = IF required = << >> THEN << >>
                                          ELSE <<required>>,
                             !.properties = <<properties>>],
              type_name))

_handle_object_type(st, object_type, properties, required, context_type_args) ==
    Named(st, get_type_name(object_type, context_type_args), LAMBDA type_name :
    Then(_register_schema(
             st,
             [Schema EXCEPT !.type = <<"object">>,
                            !.required = IF required = << >> THEN << >>
                                         ELSE <<required>>,
                            !.properties = <<properties>>],
             type_name), LAMBDA r :
         Return([r.st EXCEPT !.refs =
                    Store(Store(r.st.refs, object_type, r.val), NameKey(type_name), r.val)],
                r.val)))

\* the Optional[Reference] found, or the exception of get_type_name
_get_stored_reference(st, object_type, type_args) ==
    IF object_type \in DOMAIN st.refs THEN Return(st, <<st.refs[object_type]>>)
    ELSE IF type_args # << >>
    THEN Named(st, get_type_name(object_type, type_args), LAMBDA type_name :
               IF NameKey(type_name) \in DOMAIN st.refs
               THEN Return(st, <<st.refs[NameKey(type_name)]>>)
               ELSE Return(st, << >>))
    ELSE Return(st, << >>)

_try_get_schema_for_simple_type(object_type) ==
    IF object_type = str THEN <<[Schema EXCEPT !.type = <<"string">>]>>
    ELSE IF object_type = int
    THEN <<[Schema EXCEPT !.type = <<"integer">>, !.format = <<"int64">>]>>
    ELSE IF object_type = float
    THEN <<[Schema EXCEPT !.type = <<"number">>, !.format = <<"float">>]>>
    ELSE IF object_type = bool THEN <<[Schema EXCEPT !.type = <<"boolean">>]>>
    ELSE IF object_type = Cls("UUID")
    THEN <<[Schema EXCEPT !.type = <<"string">>, !.format = <<"uuid">>]>>
    ELSE IF object_type = Cls("date")
    THEN <<[Schema EXCEPT !.type = <<"string">>, !.format = <<"date">>]>>
    ELSE IF object_type = Cls("datetime")
    THEN <<[Schema EXCEPT !.type = <<"string">>, !.format = <<"date-time">>]>>
    ELSE << >>

\* every enumeration documented as strings
_try_get_schema_for_enum_strings(object_type) ==
    IF object_type.n \in DOMAIN IntEnumValues
    THEN <<[Schema EXCEPT !.type = <<"string">>,
                          !.enum = <<IntEnumValues[object_type.n]>>]>>
    ELSE IF object_type.n \in DOMAIN EnumValues
    THEN <<[Schema EXCEPT !.type = <<"string">>,
                          !.enum = <<EnumValues[object_type.n]>>]>>
    ELSE << >>

_try_get_schema_for_enum(object_type) ==
    IF object_type.n \in DOMAIN IntEnumValues
    THEN <<[Schema EXCEPT !.type = <<"integer">>,
                          !.enum = <<IntEnumValues[object_type.n]>>]>>
    ELSE IF object_type.n \in DOMAIN EnumValues
    THEN <<[Schema EXCEPT !.type = <<"string">>,
                          !.enum = <<EnumValues[object_type.n]>>]>>
    ELSE << >>

\* the first handler of _object_types_handlers that handles the type
get_fields(object_type) ==
    IF is_dataclass(object_type) THEN dataclass_fields(object_type)
    ELSE IF handles_type(object_type) THEN get_type_fields(object_type)
    ELSE << >>

get_schema_by_type(st, object_type, type_args, depth) ==
    IF depth = 0 THEN Raise(st, "RecursionError")
    ELSE IF object_type.k = "schema" THEN Return(st, object_type.schema)
    ELSE
    Then(_get_stored_reference(st, object_type, type_args), LAMBDA stored_ref :
         IF stored_ref.val # << >> THEN Return(st, stored_ref.val[1])
         ELSE
         Checked(st, check_union(object_type), LAMBDA u :
         Then(_get_schema_by_type(st, u.child_type, type_args, depth - 1), LAMBDA r :
              IF isSchema(r.val) /\ ~u.is_optional
              THEN Return(r.st, [r.val EXCEPT !.nullable = <<u.is_optional>>])
              ELSE r)))

_get_schema_by_type(st, object_type, type_args, depth) ==
    Then(_get_stored_reference(st, object_type, type_args), LAMBDA stored_ref :
         IF stored_ref.val # << >> THEN Return(st, stored_ref.val[1])
         ELSE IF _can_handle_class_type(object_type)
         THEN _get_schema_for_class(st, object_type, depth)
         ELSE IF _try_get_schema_for_simple_type(object_type) # << >>
         THEN Return(st, _try_get_schema_for_simple_type(object_type)[1])
         ELSE
         Then(_try_get_schema_for_iterable(st, object_type, type_args, depth), LAMBDA it :
              IF it.val # << >> THEN Return(it.st, it.val[1])
              ELSE
              Then(IF object_type.k = "alias"
                   THEN _try_get_schema_for_generic(it.st, object_type, type_args, depth)
                   ELSE Return(it.st, << >>), LAMBDA g :
                   IF g.val # << >> THEN Return(g.st, g.val[1])
                   ELSE
                   LET schema == IF isclass(object_type)
                                 THEN _try_get_schema_for_enum(object_type)
                                 ELSE << >>
                   IN Return(g.st, IF schema # << >> THEN schema[1] ELSE Schema))))

\* the loop with every field required
ClassFieldsAllRequired(st, object_type, fields, i, required, properties, depth) ==
    IF i > Len(fields)
    THEN _handle_object_type(st, object_type, properties, required, << >>)
    ELSE
    LET field == fields[i]
    IN Checked(st, check_union(field.type), LAMBDA u :
       LET child_type == IF u.child_type.k = "str"
                            /\ field.name \in DOMAIN get_type_hints(object_type)
                         THEN get_type_hints(object_type)[field.name]
                         ELSE u.child_type
       IN Then(get_schema_by_type(st, child_type, << >>, depth), LAMBDA r :
               ClassFields(r.st, object_type, fields, i + 1, Append(required, field.name),
                           Store(properties, field.name, r.val), depth)))

\* the loop of _get_schema_for_class over the fields, from the i-th
ClassFields(st, object_type, fields, i, required, properties, depth) ==
    IF i > Len(fields)
    THEN _handle_object_type(st, object_type, properties, required, << >>)
    ELSE
    LET field == fields[i]
    IN Checked(st, check_union(field.type), LAMBDA u :
       LET required1 == IF ~u.is_optional THEN Append(required, field.name)
                        ELSE required
           child_type == IF u.child_type.k = "str"
                            /\ field.name \in DOMAIN get_type_hints(object_type)
                         THEN get_type_hints(object_type)[field.name]
                         ELSE u.child_type
       IN Then(get_schema_by_type(st, child_type, << >>, depth), LAMBDA r :
               ClassFields(r.st, object_type, fields, i + 1, required1,
                           Store(properties, field.name, r.val), depth)))

_get_schema_for_class(st, object_type, depth) ==
    IF object_type \in DOMAIN _types_schemas
    THEN _handle_type_having_explicit_schema(st, object_type)
    ELSE ClassFields(st, object_type, get_fields(object_type), 1, << >>, << >>, depth)

_try_get_schema_for_iterable(st, object_type, context_type_args, depth) ==
    IF object_type \in {list, Cls("set"), Cls("tuple")}
    THEN Return(st, <<[Schema EXCEPT !.type = <<"array">>,
                                     !.items = <<[Schema EXCEPT !.type = <<"string">>]>>]>>)
    ELSE
    LET origin == get_origin(object_type)
    IN IF origin = << >>
          \/ origin[1] \notin {list, Cls("set"), Cls("tuple"), Cls("Sequence")}
       THEN Return(st, << >>)
       ELSE
       LET first == IF Len(object_type.args) > 0 THEN object_type.args[1] ELSE str
           item_type == IF first \in DOMAIN context_type_args
                        THEN context_type_args[first] ELSE first
       IN Then(get_schema_by_type(st, item_type, context_type_args, depth), LAMBDA r :
               Return(r.st, <<[Schema EXCEPT !.type = <<"array">>,
                                             !.items = <<r.val>>]>>))

\* the loop of _try_get_schema_for_generic over the fields, from the i-th
GenericFields(st, object_type, fields, i, required, properties, type_args, ctx, depth) ==
    IF i > Len(fields)
    THEN Then(_handle_object_type(st, object_type, properties, required, ctx), LAMBDA r :
              Return(r.st, <<r.val>>))
    ELSE
    LET field == fields[i]
    IN Checked(st, check_union(field.type), LAMBDA u :
       IF u.child_type.k = "str"
       THEN Return([st EXCEPT !.warned =
                       @ \cup {[type |-> object_type, field |-> field.name]}],
                   << >>)
       ELSE
       LET required1 == IF ~u.is_optional THEN Append(required, field.name)
                        ELSE required
           child_type == IF u.child_type \in DOMAIN type_args
                         THEN type_args[u.child_type] ELSE u.child_type
       IN Then(get_schema_by_type(st, child_type, type_args, depth), LAMBDA r :
               GenericFields(r.st, object_type, fields, i + 1, required1,
                             Store(properties, field.name, r.val), type_args, ctx, depth)))

\* a resolution that leaves the forward references out of the record
_try_get_schema_for_generic_skipping(st, object_type, context_type_args, depth) ==
    LET origin == object_type.origin
        args == object_type.args
        parameters == Parameters[origin.n]
        type_args == [p \in {parameters[i] : i \in 1..Len(args)} |->
                         args[CHOOSE i \in 1..Len(args) : parameters[i] = p]]
    IN GenericFields(st, object_type,
                     SelectSeq(get_fields(origin), LAMBDA field : field.type.k # "str"),
                     1, << >>, << >>, type_args, context_type_args, depth)

_try_get_schema_for_generic(st, object_type, context_type_args, depth) ==
    LET origin == object_type.origin
        args == object_type.args
        parameters == Parameters[origin.n]
        type_args == [p \in {parameters[i] : i \in 1..Len(args)} |->
                         args[CHOOSE i \in 1..Len(args) : parameters[i] = p]]
    IN GenericFields(st, object_type, get_fields(origin), 1, << >>, << >>,
                     type_args, context_type_args, depth)

(***************************************************************************)
(* The request handlers of the application and their documentation.  A     *)
(* dict the code iterates over is a sequence of [key, value] entries, in   *)
(* insertion order.                                                        *)
(***************************************************************************)
\* the value None of a return annotation (`-> None`)
None == [k |-> "None"]

\* a status given as an int or as a str
Status(v) == [k |-> "int", v |-> v]
StatusStr(v) == [k |-> "str", v |-> v]

ContentInfo(type) == [type |-> type, content_type |-> "application/json"]
\* ContentInfo(type, content_type=...)
ContentInfoOf(type, content_type) == [type |-> type, content_type |-> content_type]
ResponseInfo(description, content) ==
    [k |-> "ResponseInfo", description |-> description, headers |-> << >>,
     content |-> content]
Text(v) == [k |-> "str", v |-> v]
ResponseDoc(description, content, headers) ==
    [description |-> description, content |-> content, headers |-> headers]
MediaType(schema) == [schema |-> schema]
EndpointDocs ==
    [summary |-> << >>, description |-> << >>, parameters |-> << >>,
     request_body |-> << >>, responses |-> << >>]

Handlers ==
    {"get_none", "get_opt_text", "get_text", "get_item", "get_untyped",
     "get_explicit", "get_bad", "get_multi", "get_dup", "search"}

\* handler.return_type: << >> when the handler has no return annotation
return_type ==
    [get_none     |-> <<None>>,
     get_opt_text |-> <<Optional(str)>>,
     get_text     |-> <<str>>,
     get_item     |-> <<Optional(Cls("Item"))>>,
     get_untyped  |-> << >>,
     get_explicit |-> <<Cls("Other")>>,
     get_bad      |-> <<Union(<<int, str>>)>>,
     get_multi    |-> <<Optional(Cls("Item"))>>,
     get_dup      |-> <<Cls("Item")>>,
     search       |-> <<List(Cls("Item"))>>]

ParameterInfo(description, value_type, source, required) ==
    [description |-> description, value_type |-> value_type, source |-> source,
     required |-> required, example |-> << >>]

\* the documentation the application attached to its handlers with @docs
InitialDocs ==
    [get_none     |-> << >>,
     get_opt_text |-> << >>,
     get_text     |-> <<[EndpointDocs EXCEPT
                           !.summary = <<"List">>,
                           !.parameters = <<<<[key |-> "page",
                                               value |-> ParameterInfo(
                                                   "The page", << >>, << >>, << >>)]>>>>]>>,
     get_item     |-> <<[EndpointDocs EXCEPT !.responses = << << >> >>]>>,
     get_untyped  |-> << >>,
     get_explicit |-> <<[EndpointDocs EXCEPT !.responses =
                          << <<[key |-> Status(200),
                                value |-> ResponseInfo("An item",
                                              <<<<ContentInfo(<<Cls("Item")>>)>>>>)],
                               [key |-> Status(404), value |-> Text("Not found")]>> >>]>>,
     get_bad      |-> << >>,
     get_multi    |-> <<[EndpointDocs EXCEPT !.responses =
                          << <<[key |-> StatusStr("201"),
                                value |-> ResponseInfo("Created",
                                              <<<<ContentInfoOf(<<Cls("Item")>>,
                                                                "application/json"),
                                                  ContentInfoOf(<<Cls("Other")>>,
                                                                "application/xml"),
                                                  ContentInfoOf(<< >>, "text/plain")>>>>)]>>
                          >>]>>,
     get_dup      |-> <<[EndpointDocs EXCEPT !.responses =
                          << <<[key |-> Status(200),
                                value |-> ResponseInfo("Twice",
                                              <<<<ContentInfoOf(<<Cls("Item")>>,
                                                                "application/json"),
                                                  ContentInfoOf(<<Cls("Other")>>,
                                                                "application/json")>>>>)]>>
                          >>]>>,
     search       |-> << >>]

\* bindings.Binder: kind is the class of the binder; default << >> is `empty`
Binder(kind, parameter_name, expected_type, required, default) ==
    [kind |-> kind, parameter_name |-> parameter_name, expected_type |-> expected_type,
     required |-> required, default |-> default, content_type |-> "application/json"]

\* handler.binders
binders ==
    [get_none     |-> << >>,
     get_opt_text |-> <<Binder("QueryBinder", "name", str, TRUE, << >>)>>,
     get_text     |-> <<Binder("QueryBinder", "page", int, TRUE, <<1>>),
                        Binder("ServiceBinder", "request", Cls("Request"), TRUE, << >>)>>,
     get_item     |-> <<Binder("RouteBinder", "item_id", int, TRUE, << >>),
                        Binder("HeaderBinder", "x_mode", Cls("Mood"), FALSE, << >>)>>,
     get_untyped  |-> << >>,
     get_explicit |-> <<Binder("BodyBinder", "data", Cls("Order"), TRUE, << >>),
                        Binder("CookieBinder", "session", Optional(str), TRUE, << >>)>>,
     get_bad      |-> << >>,
     get_multi    |-> <<Binder("RouteBinder", "kind", str, FALSE, <<"a">>),
                        Binder("CookieBinder", "theme", str, FALSE, <<"dark">>)>>,
     get_dup      |-> <<Binder("RequestBinder", "request", Cls("Request"), TRUE, << >>),
                        Binder("ServicesBinder", "services", Cls("Services"), TRUE, << >>)>>,
     search       |-> <<Binder("QueryBinder", "request", str, TRUE, << >>),
                        Binder("HeaderBinder", "services", str, FALSE, << >>),
                        Binder("ServiceBinder", "repo", Cls("Repo"), TRUE, << >>),
                        Binder("BodyBinder", "filter", Cls("Other"), FALSE, << >>)>>]

\* docstrings.get_handler_docstring_info(handler): << >> without a docstring
docstring_info ==
    [get_none     |-> << >>,
     get_opt_text |-> << >>,
     get_text     |-> <<[summary |-> "Texts.", description |-> "Returns the texts.",
                         parameters |->
                             <<[key |-> "page",
                                value |-> ParameterInfo("Page number", <<int>>, << >>, << >>)],
                               [key |-> "request",
                                value |-> ParameterInfo("The request", << >>, << >>, << >>)]>>]>>,
     get_item     |-> << >>,
     get_untyped  |-> << >>,
     get_explicit |-> <<[summary |-> "Creates.", description |-> "",
                         parameters |->
                             <<[key |-> "data",
                                value |-> ParameterInfo("The order", << >>, << >>, << >>)],
                               [key |-> "trace",
                                value |-> ParameterInfo("Trace id", <<str>>, <<"header">>,
                                                        <<FALSE>>)]>>]>>,
     get_bad      |-> << >>,
     get_multi    |-> << >>,
     get_dup      |-> << >>,
     search       |-> << >>]

\* the routes of the application, as router_to_paths_dict groups them
Routes ==
    <<[path |-> "/items", method |-> "get", handler |-> "get_text"],
      [path |-> "/items", method |-> "post", handler |-> "get_explicit"],
      [path |-> "/items/:item_id", method |-> "get", handler |-> "get_item"],
      [path |-> "/none", method |-> "get", handler |-> "get_none"]>>

\* the values the application gives to common_responses
CommonResponses ==
    {<< >>,
     <<[key |-> Status(400), value |-> ResponseDoc("Bad request", << >>, << >>)]>>,
     <<[key |-> Status(200), value |-> ResponseDoc("Common", << >>, << >>)],
       [key |-> StatusStr("404"), value |-> ResponseDoc("Common", << >>, << >>)]>>}

\* APIDocsHandler.get_handler_docs
get_handler_docs(dc, handler) == dc[handler]

response_status_to_str(key) == IF key.k = "int" THEN ToString(key.v) ELSE key.v

\* d[key] = value on a dict kept as a sequence of entries
SetItem(d, key, value) ==
    IF \E i \in DOMAIN d : d[i].key = key
    THEN [i \in DOMAIN d |-> IF d[i].key = key THEN [key |-> key, value |-> value]
                             ELSE d[i]]
    ELSE Append(d, [key |-> key, value |-> value])

RECURSIVE ContentEntries(_, _, _, _)
\* a loop in which a later ContentInfo replaces an earlier one of its media type
ContentEntriesLastWins(st, response_content, i, oad_content) ==
    IF i > Len(response_content) THEN Return(st, <<oad_content>>)
    ELSE
    LET content == response_content[i]
    IN Then(IF content.type # << >>
            THEN get_schema_by_type(st, content.type[1], << >>, MaxDepth)
            ELSE Return(st, << >>), LAMBDA r :
            ContentEntries(r.st, response_content, i + 1,
                           Store(oad_content, content.content_type,
                                 MediaType(IF content.type # << >> THEN <<r.val>>
                                           ELSE << >>))))

\* the loop of _get_content_from_response_info, from the i-th ContentInfo
ContentEntries(st, response_content, i, oad_content) ==
    IF i > Len(response_content) THEN Return(st, <<oad_content>>)
    ELSE
    LET content == response_content[i]
    IN IF content.content_type \in DOMAIN oad_content
       THEN Raise(st, "DuplicatedContentTypeDocsException")
       ELSE
       \* _get_media_type_from_content_doc
       Then(IF content.type # << >>
            THEN get_schema_by_type(st, content.type[1], << >>, MaxDepth)
            ELSE Return(st, << >>), LAMBDA r :
            ContentEntries(r.st, response_content, i + 1,
                           Store(oad_content, content.content_type,
                                 MediaType(IF content.type # << >> THEN <<r.val>>
                                           ELSE << >>))))

_get_content_from_response_info(st, response_content) ==
    IF response_content = << >> \/ response_content = << << >> >>
    THEN Return(st, << >>)
    ELSE ContentEntries(st, response_content[1], 1, << >>)

RECURSIVE HeaderEntries(_, _, _, _)
\* the dict comprehension of _get_headers_from_response_info, from the i-th header
HeaderEntries(st, headers, i, out) ==
    IF i > Len(headers) THEN Return(st, <<out>>)
    ELSE
    Then(get_schema_by_type(st, headers[i].value.type, << >>, MaxDepth), LAMBDA r :
         HeaderEntries(r.st, headers, i + 1,
                       Store(out, headers[i].key,
                             [description |-> headers[i].value.description,
                              schema |-> r.val])))

_get_headers_from_response_info(st, headers) ==
    IF headers = << >> THEN Return(st, << >>)
    ELSE HeaderEntries(st, headers[1], 1, << >>)

RECURSIVE ResponseEntries(_, _, _, _)
\* the dict comprehension of get_responses over data.items(), from the i-th entry
ResponseEntries(st, data, i, out) ==
    IF i > Len(data) THEN Return(st, out)
    ELSE
    LET key == response_status_to_str(data[i].key)
        value == data[i].value
    IN IF value.k = "ResponseInfo"
       THEN Then(_get_content_from_response_info(st, value.content), LAMBDA c :
            Then(_get_headers_from_response_info(c.st, value.headers), LAMBDA h :
                 ResponseEntries(h.st, data, i + 1,
                                 Store(out, key,
                                       ResponseDoc(value.description, c.val, h.val)))))
       ELSE ResponseEntries(st, data, i + 1,
                            Store(out, key, ResponseDoc(value.v, << >>, << >>)))

RECURSIVE Update(_, _, _)
\* the dict built from the entries of a sequence, later entries winning
Update(out, entries, i) ==
    IF i > Len(entries) THEN out
    ELSE Update(Store(out, response_status_to_str(entries[i].key), entries[i].value),
                entries, i + 1)

\* the inference that documents a 404 for every optional return type
InferredResponsesAlways404(data, annotation, with_404) ==
    IF annotation = None
    THEN SetItem(data, StatusStr("204"), ResponseInfo("Success response", << << >> >>))
    ELSE LET u == check_union(annotation)
             ok == SetItem(data, StatusStr("200"),
                           ResponseInfo("Success response",
                                        <<<<ContentInfo(<<u.child_type>>)>>>>))
         IN IF u.is_optional
            THEN SetItem(ok, StatusStr("404"), ResponseInfo("Object not found", << >>))
            ELSE ok

\* the entries get_responses infers from the return type of the handler
InferredResponses(data, annotation, with_404) ==
    IF annotation = None
    THEN SetItem(data, StatusStr("204"), ResponseInfo("Success response", << << >> >>))
    ELSE LET u == check_union(annotation)
             ok == SetItem(data, StatusStr("200"),
                           ResponseInfo("Success response",
                                        <<<<ContentInfo(<<u.child_type>>)>>>>))
         IN IF u.is_optional /\ with_404
            THEN SetItem(ok, StatusStr("404"), ResponseInfo("Object not found", << >>))
            ELSE ok

\* responses in which a common response replaces the handler's own
get_responses_common_first(st, dc, handler) ==
    LET hdocs == get_handler_docs(dc, handler)
        data == IF hdocs # << >> THEN hdocs[1].responses ELSE << >>
        responses == Update(<< >>, config.common_responses, 1)
        annotation == return_type[handler]
    IN IF data # << >> /\ data # << << >> >>
       THEN ThenDocs(ResponseEntries(st, data[1], 1, << >>), dc, LAMBDA r :
                     Result(r.st, dc, responses @@ r.val, "none"))
       ELSE IF annotation = << >>
       THEN Result(st, dc, responses, "none")
       ELSE IF annotation[1] # None /\ check_union(annotation[1]).exc # "none"
       THEN Result(st, dc, << >>, check_union(annotation[1]).exc)
       ELSE
       LET inferred == InferredResponses(<< >>, annotation[1],
                                         config.handle_optional_response_with_404)
           dc1 == IF data = << << >> >>
                  THEN [dc EXCEPT ![handler] =
                           <<[hdocs[1] EXCEPT !.responses = <<inferred>>]>>]
                  ELSE dc
       IN ThenDocs(ResponseEntries(st, inferred, 1, << >>), dc1, LAMBDA r :
                   Result(r.st, dc1, r.val @@ responses, "none"))

\* the result carries the handlers' docs as the call leaves them
get_responses(st, dc, handler) ==
    LET hdocs == get_handler_docs(dc, handler)
        data == IF hdocs # << >> THEN hdocs[1].responses ELSE << >>
        responses == Update(<< >>, config.common_responses, 1)
        annotation == return_type[handler]
    IN IF data # << >> /\ data # << << >> >>
       THEN ThenDocs(ResponseEntries(st, data[1], 1, << >>), dc, LAMBDA r :
                     Result(r.st, dc, r.val @@ responses, "none"))
       ELSE IF annotation = << >>
       THEN Result(st, dc, responses, "none")
       ELSE IF annotation[1] # None /\ check_union(annotation[1]).exc # "none"
       THEN Result(st, dc, << >>, check_union(annotation[1]).exc)
       ELSE
       LET inferred == InferredResponses(<< >>, annotation[1],
                                         config.handle_optional_response_with_404)
           \* an empty dict of the EndpointDocs is filled in place
           dc1 == IF data = << << >> >>
                  THEN [dc EXCEPT ![handler] =
                           <<[hdocs[1] EXCEPT !.responses = <<inferred>>]>>]
                  ELSE dc
       IN ThenDocs(ResponseEntries(st, inferred, 1, << >>), dc1, LAMBDA r :
                   Result(r.st, dc1, r.val @@ responses, "none"))

(***************************************************************************)
(* The operation built for a route: parameters, request body, docstrings.  *)
(* A call that may change the handlers' docs returns them in dc.           *)
(***************************************************************************)

get_parameter_location_for_binder(binder) ==
    IF binder.kind = "RouteBinder" THEN <<"path">>
    ELSE IF binder.kind = "QueryBinder" THEN <<"query">>
    ELSE IF binder.kind = "CookieBinder" THEN <<"cookie">>
    ELSE IF binder.kind = "HeaderBinder" THEN <<"header">>
    ELSE << >>

is_ignored_parameter(param_name, matching_binder) ==
    IF matching_binder # << >>
          /\ matching_binder[1].kind \notin
                 {"QueryBinder", "RouteBinder", "HeaderBinder", "CookieBinder"}
    THEN TRUE
    ELSE param_name = "request" \/ param_name = "services"

\* dict.get(key) on a dict kept as a sequence of entries
GetItem(d, key) ==
    IF \E i \in DOMAIN d : d[i].key = key
    THEN <<d[CHOOSE i \in DOMAIN d : d[i].key = key].value>>
    ELSE << >>

_get_body_binder(handler) ==
    LET bs == binders[handler]
    IN IF \E i \in DOMAIN bs : bs[i].kind = "BodyBinder"
       THEN <<bs[CHOOSE i \in DOMAIN bs :
                     /\ bs[i].kind = "BodyBinder"
                     /\ \A j \in 1..(i - 1) : bs[j].kind # "BodyBinder"]>>
       ELSE << >>

_get_binder_by_name(handler, name) ==
    LET bs == binders[handler]
    IN IF \E i \in DOMAIN bs : bs[i].parameter_name = name
       THEN <<bs[CHOOSE i \in DOMAIN bs :
                     /\ bs[i].parameter_name = name
                     /\ \A j \in 1..(i - 1) : bs[j].parameter_name # name]>>
       ELSE << >>

Parameter(name, in_, required, schema, description, example) ==
    [name |-> name, in_ |-> in_, required |-> required, schema |-> schema,
     description |-> description, example |-> example]

RECURSIVE BinderParameters(_, _, _, _, _)
\* the loop that takes no account of the default of a binder
BinderParametersIgnoringDefault(st, bs, parameters_info, i, parameters) ==
    IF i > Len(bs) THEN Return(st, parameters)
    ELSE
    LET binder == bs[i]
        location == get_parameter_location_for_binder(binder)
        required == IF location = <<"path">> THEN TRUE
                    ELSE binder.required
        param_info == GetItem(parameters_info, binder.parameter_name)
    IN IF location = << >>
       THEN BinderParameters(st, bs, parameters_info, i + 1, parameters)
       ELSE
       Then(get_schema_by_type(st, binder.expected_type, << >>, MaxDepth), LAMBDA r :
            BinderParameters(
                r.st, bs, parameters_info, i + 1,
                SetItem(parameters, binder.parameter_name,
                        Parameter(binder.parameter_name, location[1],
                                  IF required THEN <<TRUE>> ELSE << >>,
                                  <<r.val>>,
                                  IF param_info # << >> THEN param_info[1].description
                                  ELSE "",
                                  IF param_info # << >> THEN param_info[1].example
                                  ELSE << >>))))

\* the first loop of get_parameters, over the binders, from the i-th
BinderParameters(st, bs, parameters_info, i, parameters) ==
    IF i > Len(bs) THEN Return(st, parameters)
    ELSE
    LET binder == bs[i]
        location == get_parameter_location_for_binder(binder)
        required == IF location = <<"path">> THEN TRUE
                    ELSE binder.required /\ binder.default = << >>
        param_info == GetItem(parameters_info, binder.parameter_name)
    IN IF location = << >>
       THEN BinderParameters(st, bs, parameters_info, i + 1, parameters)
       ELSE
       Then(get_schema_by_type(st, binder.expected_type, << >>, MaxDepth), LAMBDA r :
            BinderParameters(
                r.st, bs, parameters_info, i + 1,
                SetItem(parameters, binder.parameter_name,
                        Parameter(binder.parameter_name, location[1],
                                  IF required THEN <<TRUE>> ELSE << >>,
                                  <<r.val>>,
                                  IF param_info # << >> THEN param_info[1].description
                                  ELSE "",
                                  IF param_info # << >> THEN param_info[1].example
                                  ELSE << >>))))

RECURSIVE DocumentedParameters(_, _, _, _)
\* the second loop of get_parameters, over the documented parameters
DocumentedParameters(st, parameters_info, i, parameters) ==
    IF i > Len(parameters_info) THEN Return(st, parameters)
    ELSE
    LET key == parameters_info[i].key
        param_info == parameters_info[i].value
    IN IF GetItem(parameters, key) # << >>
       THEN DocumentedParameters(st, parameters_info, i + 1, parameters)
       ELSE
       Then(IF param_info.value_type # << >>
            THEN get_schema_by_type(st, param_info.value_type[1], << >>, MaxDepth)
            ELSE Return(st, << >>), LAMBDA r :
            DocumentedParameters(
                r.st, parameters_info, i + 1,
                SetItem(parameters, key,
                        Parameter(key,
                                  IF param_info.source # << >> THEN param_info.source[1]
                                  ELSE "query",
                                  param_info.required,
                                  IF param_info.value_type # << >> THEN <<r.val>>
                                  ELSE << >>,
                                  param_info.description,
                                  param_info.example))))

\* the list of the Parameters, in the order of their first insertion
get_parameters(st, dc, handler) ==
    LET hdocs == get_handler_docs(dc, handler)
        parameters_info == IF hdocs # << >> /\ hdocs[1].parameters # << >>
                           THEN hdocs[1].parameters[1] ELSE << >>
    IN Then(BinderParameters(st, binders[handler], parameters_info, 1, << >>), LAMBDA b :
       Then(DocumentedParameters(b.st, parameters_info, 1, b.val), LAMBDA d :
            Return(d.st, [i \in DOMAIN d.val |-> d.val[i].value])))

get_request_body(st, dc, handler) ==
    LET body_binder == _get_body_binder(handler)
        hdocs == get_handler_docs(dc, handler)
        body_info == IF hdocs # << >> THEN hdocs[1].request_body ELSE << >>
    IN IF body_binder = << >> THEN Return(st, << >>)
       ELSE
       Then(get_schema_by_type(st, body_binder[1].expected_type, << >>, MaxDepth),
            LAMBDA r :
            Return(r.st,
                   <<[content |-> (body_binder[1].content_type :> MediaType(<<r.val>>)),
                      required |-> body_binder[1].required,
                      description |-> IF body_info # << >>
                                      THEN body_info[1].description ELSE << >>]>>))

\* `not text` for an Optional[str]
Blank(text) == text = << >> \/ text = <<"">>

RequestBodyInfo(description) == [description |-> description, examples |-> << >>]

RECURSIVE MergeParameters(_, _, _, _)
\* the loop of _merge_documentation over the documented parameters, from the i-th
MergeParameters(handler, endpoint_docs, parameters, i) ==
    IF i > Len(parameters) THEN endpoint_docs
    ELSE
    LET param_name == parameters[i].key
        param_info == parameters[i].value
        docs1 == IF endpoint_docs.parameters = << >>
                 THEN [endpoint_docs EXCEPT !.parameters = << << >> >>]
                 ELSE endpoint_docs
        matching_parameter == GetItem(docs1.parameters[1], param_name)
        matching_binder == _get_binder_by_name(handler, param_name)
        docs2 ==
            IF matching_parameter = << >>
            THEN IF matching_binder # << >> /\ matching_binder[1].kind = "BodyBinder"
                 THEN IF docs1.request_body = << >>
                      THEN [docs1 EXCEPT !.request_body =
                               <<RequestBodyInfo(<<param_info.description>>)>>]
                      ELSE IF Blank(docs1.request_body[1].description)
                      THEN [docs1 EXCEPT !.request_body[1].description =
                               <<param_info.description>>]
                      ELSE docs1
                 ELSE IF is_ignored_parameter(param_name, matching_binder)
                 THEN docs1
                 ELSE [docs1 EXCEPT !.parameters[1] =
                          SetItem(@, param_name,
                                  ParameterInfo(param_info.description,
                                                param_info.value_type,
                                                IF param_info.source # << >>
                                                THEN param_info.source ELSE <<"query">>,
                                                param_info.required))]
            ELSE [docs1 EXCEPT !.parameters[1] =
                     SetItem(@, param_name,
                             [matching_parameter[1] EXCEPT
                                 !.description = param_info.description,
                                 !.value_type =
                                     IF @ = << >> /\ param_info.value_type # << >>
                                     THEN param_info.value_type ELSE @])]
    IN MergeParameters(handler, docs2, parameters, i + 1)

\* the EndpointDocs as the merge leaves it
_merge_documentation(handler, endpoint_docs, info) ==
    LET docs1 == IF Blank(endpoint_docs.description) /\ info.description # ""
                 THEN [endpoint_docs EXCEPT !.description = <<info.description>>]
                 ELSE endpoint_docs
        docs2 == IF Blank(docs1.summary) /\ info.summary # ""
                 THEN [docs1 EXCEPT !.summary = <<info.summary>>]
                 ELSE docs1
    IN MergeParameters(handler, docs2, info.parameters, 1)

\* a merge of the docstring that does not look at use_docstrings
_apply_docstring_always(dc, handler) ==
    IF docstring_info[handler] = << >> THEN dc
    ELSE LET hdocs == IF dc[handler] = << >> THEN EndpointDocs ELSE dc[handler][1]
         IN [dc EXCEPT ![handler] =
                <<_merge_documentation(handler, hdocs, docstring_info[handler][1])>>]

\* the handlers' docs as _apply_docstring leaves them
_apply_docstring(dc, handler) ==
    IF ~config.use_docstrings \/ docstring_info[handler] = << >> THEN dc
    ELSE LET hdocs == IF dc[handler] = << >> THEN EndpointDocs ELSE dc[handler][1]
         IN [dc EXCEPT ![handler] =
                <<_merge_documentation(handler, hdocs, docstring_info[handler][1])>>]

\* APIDocsHandler.get_description and get_summary
get_description(dc, handler) ==
    IF dc[handler] # << >> THEN dc[handler][1].description ELSE << >>
get_summary(dc, handler) ==
    IF dc[handler] # << >> THEN dc[handler][1].summary ELSE << >>

\* the Operation of one route, as the body of the loop of get_routes_docs builds it
RouteOperation(st, dc, handler) ==
    Let(_apply_docstring(dc, handler), LAMBDA dc1 :
    Then(get_responses(st, dc1, handler), LAMBDA responses :
    ThenDocs(get_parameters(responses.st, responses.dc, handler), responses.dc,
             LAMBDA parameters :
    ThenDocs(get_request_body(parameters.st, responses.dc, handler), responses.dc,
             LAMBDA request_body :
             Result(request_body.st, responses.dc,
                    [description |-> get_description(dc1, handler),
                     summary |-> get_summary(dc1, handler),
                     responses |-> responses.val,
                     operation_id |-> handler,
                     parameters |-> parameters.val,
                     request_body |-> request_body.val],
                    "none")))))

RECURSIVE RoutesDocs(_, _, _, _, _)
\* the loops of get_routes_docs over the routes, from the i-th
RoutesDocs(st, dc, routes, i, paths_doc) ==
    IF i > Len(routes) THEN Result(st, dc, paths_doc, "none")
    ELSE
    LET route == routes[i]
        path_item == IF route.path \in DOMAIN paths_doc THEN paths_doc[route.path]
                     ELSE << >>
    IN Then(RouteOperation(st, dc, route.handler), LAMBDA r :
            RoutesDocs(r.st, r.dc, routes, i + 1,
                       Store(paths_doc, route.path, Store(path_item, route.method, r.val))))

get_routes_docs(st, dc, routes) == RoutesDocs(st, dc, routes, 1, << >>)

\* a generation that starts from an empty registry
generate_documentation_fresh(st, dc, routes) ==
    Then(get_routes_docs([st EXCEPT !.schemas = << >>, !.refs = << >>], dc, routes),
         LAMBDA r :
         Result(r.st, r.dc, [paths |-> r.val, components |-> r.st.schemas], "none"))

\* the OpenAPI document: its components are the components of the handler
generate_documentation(st, dc, routes) ==
    Then(get_routes_docs(st, dc, routes), LAMBDA r :
         Result(r.st, r.dc, [paths |-> r.val, components |-> r.st.schemas], "none"))

register_schema_for_type(st, object_type) ==
    Then(_get_stored_reference(st, object_type, << >>), LAMBDA stored_ref :
         IF stored_ref.val # << >> THEN Return(st, stored_ref.val[1])
         ELSE
         Then(get_schema_by_type(st, object_type, << >>, MaxDepth), LAMBDA r :
              IF isReference(r.val) THEN r
              ELSE Named(r.st, get_type_name(object_type, << >>), LAMBDA type_name :
                         _register_schema(r.st, r.val, type_name))))

(***************************************************************************)
(* The state machine: the calls an application makes on one OpenAPIHandler.*)
(***************************************************************************)
St == [schemas |-> schemas, refs |-> refs, warned |-> warned, proposed |-> proposed]

\* the record types: dataclasses, generic instantiations, explicit schemas
RecordTypes ==
    {Cls("Item"), Cls("Other"), Cls("Order"), Cls("Node"), Cls("BadRec"), Cls("Custom"),
     Alias(Cls("Box"), <<Cls("Item")>>), Alias(Cls("Box"), <<Cls("Other")>>),
     Alias(Cls("BadBox"), <<Cls("Item")>>), Alias(Cls("Linked"), <<Cls("Item")>>)}

\* the classes called Foo, one per module, and the types built from them
Homonyms == {ClsOf(i, "Foo") : i \in 1..MaxHomonyms}
HomonymTypes == Homonyms \cup {List(ClsOf(1, "Foo")), Optional(ClsOf(2, "Foo"))}

\* the types the application asks schemas for
Types ==
    RecordTypes \cup
    {int, Optional(int), Optional(Cls("Item")), List(Cls("Item")),
     Union(<<int, str>>), Union(<<int, str, NoneType>>),
     Cls("Color"), Cls("Mood"), Cls("Level"), Cls("Opaque")}

\* the settings an application may choose, and those of a new OpenAPIHandler
Configs == [common_responses : CommonResponses,
            handle_optional_response_with_404 : BOOLEAN,
            use_docstrings : BOOLEAN]
DefaultConfig == [common_responses |-> << >>, handle_optional_response_with_404 |-> TRUE,
                  use_docstrings |-> TRUE]

Init ==
    /\ config = DefaultConfig
    /\ schemas = << >>
    /\ refs = << >>
    /\ warned = {}
    /\ proposed = << >>
    /\ resolved = << >>
    /\ docs = InitialDocs
    /\ passes = << >>
    /\ registered = << >>
    /\ last = [op |-> "__init__"]

Commit(st) ==
    /\ schemas' = st.schemas
    /\ refs' = st.refs
    /\ warned' = st.warned
    /\ proposed' = st.proposed

GetSchemaByType(object_type) ==
    \E r \in {get_schema_by_type(St, object_type, << >>, MaxDepth)} :
       /\ Commit(r.st)
       /\ resolved' = IF r.exc = "none" /\ object_type \in RecordTypes \cup Homonyms
                         /\ object_type \notin DOMAIN resolved
                      THEN Store(resolved, object_type, r.val) ELSE resolved
       /\ last' = [op |-> "get_schema_by_type", arg |-> object_type, exc |-> r.exc,
                   val |-> r.val, added |-> DOMAIN r.st.schemas \ DOMAIN schemas,
                   again |-> object_type \in DOMAIN resolved]
       /\ UNCHANGED <<registered, docs, config, passes>>

\* whether the handler has response docs of its own
HasResponseDocs(dc, handler) ==
    /\ dc[handler] # << >>
    /\ dc[handler][1].responses \notin {<< >>, << << >> >>}

GetResponses(handler) ==
    \E r \in {get_responses(St, docs, handler)} :
       /\ Commit(r.st)
       /\ docs' = r.dc
       /\ last' = [op |-> "get_responses", arg |-> [k |-> "handler", n |-> handler],
                   exc |-> r.exc, val |-> r.val,
                   added |-> DOMAIN r.st.schemas \ DOMAIN schemas,
                   again |-> HasResponseDocs(docs, handler)]
       /\ UNCHANGED <<registered, resolved, config, passes>>

GetParameters(handler) ==
    \E r \in {get_parameters(St, docs, handler)} :
       /\ Commit(r.st)
       /\ last' = [op |-> "get_parameters", arg |-> [k |-> "handler", n |-> handler],
                   exc |-> r.exc, val |-> r.val,
                   added |-> DOMAIN r.st.schemas \ DOMAIN schemas,
                   again |-> FALSE]
       /\ UNCHANGED <<registered, resolved, docs, config, passes>>

GetRequestBody(handler) ==
    \E r \in {get_request_body(St, docs, handler)} :
       /\ Commit(r.st)
       /\ last' = [op |-> "get_request_body", arg |-> [k |-> "handler", n |-> handler],
                   exc |-> r.exc, val |-> r.val,
                   added |-> DOMAIN r.st.schemas \ DOMAIN schemas,
                   again |-> FALSE]
       /\ UNCHANGED <<registered, resolved, docs, config, passes>>

\* the call get_routes_docs makes for the handler of a route
ApplyDocstring(handler) ==
    /\ docs' = _apply_docstring(docs, handler)
    /\ last' = [op |-> "_apply_docstring", arg |-> [k |-> "handler", n |-> handler],
                exc |-> "none", val |-> docs[handler],
                added |-> {}, again |-> FALSE]
    /\ UNCHANGED <<registered, schemas, refs, warned, proposed, resolved, config, passes>>

RegisterSchemaForType(object_type) ==
    /\ IF object_type.n \in DOMAIN proposed
       THEN proposed[object_type.n] < MaxRegistrations
       ELSE TRUE
    /\ \E r \in {register_schema_for_type(St, object_type)} :
          /\ Commit(r.st)
          /\ registered' = IF r.exc = "none" /\ object_type \notin DOMAIN registered
                           THEN Store(registered, object_type, r.val) ELSE registered
          /\ last' = [op |-> "register_schema_for_type", arg |-> object_type,
                      exc |-> r.exc, val |-> r.val,
                      added |-> DOMAIN r.st.schemas \ DOMAIN schemas,
                      again |-> object_type \in DOMAIN registered]
    /\ UNCHANGED <<resolved, docs, config, passes>>

GenerateDocumentation ==
    /\ Len(passes) < MaxPasses
    /\ \E r \in {generate_documentation(St, docs, Routes)} :
          /\ Commit(r.st)
          /\ docs' = r.dc
          /\ passes' = Append(passes, [start |-> St, end |-> r.st,
                                     before |-> docs, after |-> r.dc])
          /\ last' = [op |-> "generate_documentation", arg |-> [k |-> "app"],
                      exc |-> r.exc, val |-> r.val,
                      added |-> DOMAIN r.st.schemas \ DOMAIN schemas,
                      again |-> passes # << >>]
    /\ UNCHANGED <<registered, resolved, config>>

Next ==
    \/ \E object_type \in Types : GetSchemaByType(object_type)

Spec == Init /\ [][Next]_vars

\* the application whose classes share one name
NextHomonyms == \E object_type \in HomonymTypes : GetSchemaByType(object_type)

SpecHomonyms == Init /\ [][NextHomonyms]_vars

\* the application that documents its handlers
NextHandlers ==
    \/ \E handler \in Handlers : GetResponses(handler)
    \/ \E object_type \in {Cls("Item"), Optional(int)} : GetSchemaByType(object_type)

InitHandlers ==
    /\ config \in Configs
    /\ schemas = << >>
    /\ refs = << >>
    /\ warned = {}
    /\ proposed = << >>
    /\ resolved = << >>
    /\ docs = InitialDocs
    /\ passes = << >>
    /\ registered = << >>
    /\ last = [op |-> "__init__"]

SpecHandlers == InitHandlers /\ [][NextHandlers]_vars

\* the application that asks for the parts of the operations of its handlers
NextOperations ==
    \/ \E handler \in Handlers : GetParameters(handler)
    \/ \E handler \in {"get_explicit", "search", "get_none"} : GetRequestBody(handler)
    \/ \E handler \in {"get_text", "get_explicit", "get_item"} : ApplyDocstring(handler)

SpecOperations == InitHandlers /\ [][NextOperations]_vars

\* the application that asks schemas for generic records nested in one another
NestedTypes ==
    {Alias(Cls("Outer"), <<Cls("Item")>>), Alias(Cls("Outer"), <<Cls("Other")>>),
     Alias(Cls("Box"), <<Cls("Item")>>), Alias(Cls("Box"), <<Cls("Other")>>),
     Cls("Item"), Optional(Cls("Other"))}

NextNested ==
    \/ \E object_type \in NestedTypes : GetSchemaByType(object_type)

SpecNested == Init /\ [][NextNested]_vars

\* the application that asks schemas for its pydantic models
ModelTypes ==
    {Cls("Account"), Optional(Cls("Account")), List(Cls("Account")),
     Cls("Item"), Cls("Other"), Cls("Order"), Cls("Color"),
     Alias(Cls("Box"), <<Cls("Account")>>)}

NextModels ==
    \/ \E object_type \in ModelTypes : GetSchemaByType(object_type)

SpecModels == Init /\ [][NextModels]_vars

\* the application that resolves and registers types in any order
RegistryTypes ==
    {Cls("Custom"), Cls("Item"), Cls("Color"), ClsOf(1, "Foo"), ClsOf(2, "Foo"),
     Alias(Cls("Box"), <<Cls("Item")>>), Alias(Cls("Outer"), <<Cls("Item")>>)}

NextRegistry ==
    \/ \E object_type \in RegistryTypes : GetSchemaByType(object_type)
    \/ \E object_type \in {Cls("Custom"), Cls("Color"), ClsOf(1, "Foo")} :
           RegisterSchemaForType(object_type)

SpecRegistry == Init /\ [][NextRegistry]_vars

\* the application that registers schemas and generates its documentation
NextGenerate ==
    \/ \E object_type \in {Cls("Other"), Cls("Color")} : RegisterSchemaForType(object_type)
    \/ \E handler \in {"get_item", "get_text"} : GetResponses(handler)
    \/ GenerateDocumentation

SpecGenerate == InitHandlers /\ [][NextGenerate]_vars

(***************************************************************************)
(* The properties of the type resolver and of the registry.                *)
(***************************************************************************)
Resolving(object_type) == last.op = "get_schema_by_type" /\ last.arg = object_type
BoxOfItem == Alias(Cls("Box"), <<Cls("Item")>>)
BoxOfOther == Alias(Cls("Box"), <<Cls("Other")>>)

\* the name a Reference points to
NameOf(reference) == CHOOSE name \in DOMAIN schemas : RefTo(name) = reference

\* C1: once get_schema_by_type(T) has returned for a record type T, every later
\* call for T, whatever was resolved in between, returns the same value and adds
\* no entry to components.schemas.
C1_IdempotentReferenceReuse ==
    \A object_type \in RecordTypes \cup Homonyms :
        (Resolving(object_type) /\ last.again) =>
            /\ last.exc = "none"
            /\ last.val = resolved[object_type]
            /\ last.added = {}

C1_Witness ==
    /\ Resolving(BoxOfItem)
    /\ last.again
    /\ isReference(last.val)
    /\ Cls("Custom") \in DOMAIN resolved
    /\ Cls("Other") \in DOMAIN resolved

\* the name given to the k-th registrant (k = 0, 1, ...) that proposes name
SuffixedName(name, k) == IF k = 0 THEN name ELSE name \o ToString(k)

\* C2: when every registration so far proposed the same name N, the k-th
\* registrant is stored under N for k = 0 and under N followed by k for k >= 1,
\* and every registrant's schema stays under the name it was given.
C2_CollisionNaming ==
    /\ \A name \in DOMAIN proposed :
           DOMAIN proposed = {name} =>
               DOMAIN schemas = {SuffixedName(name, k) : k \in 0..(proposed[name] - 1)}
    /\ \A object_type \in Homonyms :
           (/\ Resolving(object_type)
            /\ last.added # {}
            /\ DOMAIN proposed = {object_type.n}) =>
               LET k == proposed[object_type.n] - 1
               IN /\ last.val = RefTo(SuffixedName(object_type.n, k))
                  /\ last.added = {SuffixedName(object_type.n, k)}
    /\ \A object_type \in Homonyms :
           (object_type \in DOMAIN refs /\ DOMAIN proposed = {object_type.n}) =>
               /\ \E name \in DOMAIN schemas : RefTo(name) = refs[object_type]
               /\ DOMAIN schemas[NameOf(refs[object_type])].properties[1]
                      = {f.name : f \in Range(dataclass_fields(object_type))}

C2_Witness ==
    /\ \E object_type \in Homonyms : Resolving(object_type) /\ last.added # {}
    /\ last.val = RefTo("Foo2")
    /\ DOMAIN schemas = {"Foo", "Foo1", "Foo2"}

\* C3: resolving a record with a field whose forward-referenced type is the
\* record itself terminates and yields one self-referential Reference.
C3_CycleTerminates ==
    Resolving(Cls("Node")) =>
        /\ last.exc = "none"
        /\ last.val = RefTo("Node")
        /\ DOMAIN schemas \cap {"Node", "Node1"} = {"Node"}
        /\ schemas["Node"].properties[1]["next"] = RefTo("Node")

\* C4: get_schema_by_type of Optional[int] returns the integer Schema with
\* nullable = true, and of int the Schema with nullable not true.
C4_OptionalIsNullable ==
    /\ Resolving(Optional(int)) =>
           /\ last.exc = "none"
           /\ isSchema(last.val)
           /\ last.val.type = <<"integer">>
           /\ last.val.nullable = <<TRUE>>
    /\ Resolving(int) =>
           /\ last.exc = "none"
           /\ isSchema(last.val)
           /\ last.val.type = <<"integer">>
           /\ last.val.nullable # <<TRUE>>

\* whether a declared field type is an optional wrapper
IsOptionalWrapper(type) ==
    /\ type.k = "alias"
    /\ type.origin = Special("Union")
    /\ NoneType \in Range(type.args)

RECURSIVE RequiredNames(_)
\* the names of the fields not declared optional, in declaration order
RequiredNames(fields) ==
    IF fields = << >> THEN << >>
    ELSE (IF IsOptionalWrapper(Head(fields).type) THEN << >> ELSE <<Head(fields).name>>)
         \o RequiredNames(Tail(fields))

\* the declared fields of a plain record or of a generic instantiation
DeclaredFields(object_type) ==
    IF object_type.k = "alias" THEN dataclass_fields(object_type.origin)
    ELSE dataclass_fields(object_type)

UnsupportedUnions ==
    {Union(<<int, str>>), Union(<<int, str, NoneType>>), Cls("BadRec"),
     Alias(Cls("BadBox"), <<Cls("Item")>>)}

C8_GenericInstantiationNaming ==
    /\ BoxOfItem \in DOMAIN resolved =>
           /\ resolved[BoxOfItem] = RefTo("BoxOfItem")
           /\ "BoxOfItem" \in DOMAIN schemas
           /\ schemas["BoxOfItem"].properties[1]["item"] = refs[Cls("Item")]
    /\ BoxOfOther \in DOMAIN resolved =>
           /\ resolved[BoxOfOther] = RefTo("BoxOfOther")
           /\ "BoxOfOther" \in DOMAIN schemas
           /\ schemas["BoxOfOther"].properties[1]["item"] = refs[Cls("Other")]
    /\ {BoxOfItem, BoxOfOther} \subseteq DOMAIN resolved =>
           /\ resolved[BoxOfItem] # resolved[BoxOfOther]
           /\ refs[Cls("Item")] # refs[Cls("Other")]

C8_Witness ==
    /\ Resolving(BoxOfItem)
    /\ ~last.again
    /\ BoxOfOther \in DOMAIN resolved
    /\ {"BoxOfItem", "BoxOfOther"} \subseteq DOMAIN schemas

\* C9: resolving an enumeration returns a Schema that is not registered, whose
\* enum list holds the members' values in declaration order, of type integer
\* for an IntEnum and of type string for every other Enum.
C9_EnumSchema ==
    /\ \A name \in DOMAIN IntEnumValues :
           Resolving(Cls(name)) =>
               /\ last.exc = "none"
               /\ isSchema(last.val)
               /\ last.val.type = <<"integer">>
               /\ last.val.enum = <<IntEnumValues[name]>>
               /\ last.added = {}
               /\ Cls(name) \notin DOMAIN refs
    /\ \A name \in DOMAIN EnumValues :
           Resolving(Cls(name)) =>
               /\ last.exc = "none"
               /\ isSchema(last.val)
               /\ last.val.type = <<"string">>
               /\ last.val.enum = <<EnumValues[name]>>
               /\ last.added = {}
               /\ Cls(name) \notin DOMAIN refs

C9_Witness ==
    /\ Resolving(Cls("Color"))
    /\ last.val.enum = << <<1, 2, 3>> >>
    /\ schemas # << >>

(***************************************************************************)
(* The properties of the responses built for a handler.                    *)
(***************************************************************************)
Responding(handler) == last.op = "get_responses" /\ last.arg.n = handler

\* the type a return annotation documents, without its Optional wrapper
Unwrapped(annotation) ==
    IF IsOptionalWrapper(annotation)
    THEN CHOOSE t \in Range(annotation.args) : t # NoneType
    ELSE annotation

\* the statuses to infer from the return annotation of a handler
ExpectedStatuses(handler) ==
    LET annotation == return_type[handler]
    IN IF annotation = << >> THEN {}
       ELSE IF annotation[1] = None THEN {"204"}
       ELSE IF IsOptionalWrapper(annotation[1])
                  /\ config.handle_optional_response_with_404
       THEN {"200", "404"}
       ELSE {"200"}

\* the handlers whose return annotation is missing, None, Optional or concrete
Inferable ==
    {h \in Handlers :
        \/ return_type[h] \in {<< >>, <<None>>}
        \/ return_type[h][1].k = "cls"
        \/ return_type[h][1] = Optional(Unwrapped(return_type[h][1]))}

\* C7: for a handler without response docs of its own, get_responses returns the
\* common responses plus: 204 alone for a None return type; 200 for the unwrapped
\* type, and 404 when handle_optional_response_with_404 is on, for an Optional
\* return type; 200 alone for a concrete type; nothing without an annotation.
C7_ResponseInference ==
    \A handler \in Inferable :
        (Responding(handler) /\ ~last.again) =>
            LET common == Update(<< >>, config.common_responses, 1)
                expected == ExpectedStatuses(handler)
            IN /\ last.exc = "none"
               /\ DOMAIN last.val = DOMAIN common \cup expected
               /\ \A key \in DOMAIN common \ expected : last.val[key] = common[key]
               /\ "204" \in expected =>
                      last.val["204"] = ResponseDoc("Success response", << >>, << >>)
               /\ "404" \in expected =>
                      last.val["404"] = ResponseDoc("Object not found", << >>, << >>)
               /\ "200" \in expected =>
                      LET type == Unwrapped(return_type[handler][1])
                          content == last.val["200"].content[1]
                          schema == content["application/json"].schema[1]
                      IN /\ last.val["200"].description = "Success response"
                         /\ DOMAIN content = {"application/json"}
                         /\ IF type \in DOMAIN refs THEN schema = refs[type]
                            ELSE /\ isSchema(schema)
                                 /\ schema.type = _try_get_schema_for_simple_type(type)[1].type

C7_Witness ==
    /\ Responding("get_opt_text")
    /\ ~last.again
    /\ DOMAIN last.val = {"200", "400", "404"}
    /\ \E handler \in Handlers : HasResponseDocs(docs, handler) /\ ~HasResponseDocs(InitialDocs, handler)

(***************************************************************************)
(* The registry across generations.                                        *)
(***************************************************************************)
\* d1 is part of d2: every key of d1 is a key of d2, with the same value
Within(d1, d2) == \A key \in DOMAIN d1 : key \in DOMAIN d2 /\ d2[key] = d1[key]

\* what a generation registered: the names and the cache keys it added
RegisteredIn(pass) ==
    [schemas |-> DOMAIN pass.end.schemas \ DOMAIN pass.start.schemas,
     refs |-> DOMAIN pass.end.refs \ DOMAIN pass.start.refs]

ExplicitResponses(handler) == docs[handler][1].responses[1]

\* the handlers documented with response docs the content types of which differ
ExplicitHandlers == {"get_explicit", "get_multi"}

\* the schema emitted for a documented type: its Reference, or its scalar Schema
EmittedFor(schema, type) ==
    IF type \in DOMAIN refs THEN schema = refs[type]
    ELSE /\ isSchema(schema)
         /\ schema.type = _try_get_schema_for_simple_type(type)[1].type

\* C11: for a handler with response docs of its own, get_responses returns the
\* common responses and the handler's entries, keyed by the status as a string;
\* a status in both carries the handler's entry; nothing comes from the return
\* type.
C11_ExplicitResponses ==
    \A handler \in ExplicitHandlers :
        (Responding(handler) /\ HasResponseDocs(InitialDocs, handler)) =>
            LET common == Update(<< >>, config.common_responses, 1)
                explicit == ExplicitResponses(handler)
            IN /\ last.exc = "none"
               /\ docs[handler] = InitialDocs[handler]
               /\ DOMAIN last.val =
                      DOMAIN common
                          \cup {response_status_to_str(explicit[i].key) : i \in DOMAIN explicit}
               /\ \A key \in DOMAIN common :
                      (\A i \in DOMAIN explicit :
                           response_status_to_str(explicit[i].key) # key)
                          => last.val[key] = common[key]
               /\ \A i \in DOMAIN explicit :
                      LET value == explicit[i].value
                          doc == last.val[response_status_to_str(explicit[i].key)]
                      IN IF value.k = "str"
                         THEN doc = ResponseDoc(value.v, << >>, << >>)
                         ELSE /\ doc.description = value.description
                              /\ doc.headers = << >>
                              /\ DOMAIN doc.content[1] =
                                     {c.content_type : c \in Range(value.content[1])}
                              /\ \A c \in Range(value.content[1]) :
                                     LET media == doc.content[1][c.content_type]
                                     IN IF c.type = << >> THEN media.schema = << >>
                                        ELSE EmittedFor(media.schema[1], c.type[1])

\* the handler's 200 and 404 replaced the common 200 and 404
C11_Witness ==
    /\ Responding("get_explicit")
    /\ last.exc = "none"
    /\ {"200", "404"} \subseteq DOMAIN Update(<< >>, config.common_responses, 1)
    /\ last.val["200"].description = "An item"
    /\ last.val["404"] = ResponseDoc("Not found", << >>, << >>)

(***************************************************************************)
(* The properties of the parameters built for a handler.                   *)
(***************************************************************************)
Parametrizing(handler) ==
    last.op = "get_parameters" /\ last.arg.n = handler /\ last.exc = "none"

\* the binders of the handler that map to a path, query, header or cookie
LocatedBinders(handler) ==
    {b \in Range(binders[handler]) : get_parameter_location_for_binder(b) # << >>}

\* the parameter emitted under the name
Emitted(name) == CHOOSE p \in Range(last.val) : p.name = name

\* C12 (as stated): the Parameter of a path binder is marked required, and that
\* of a query, header or cookie binder is marked required exactly when the
\* binder has no default value.
C12_RequiredUnlessDefault ==
    \A handler \in Handlers :
        Parametrizing(handler) =>
            \A b \in LocatedBinders(handler) :
                /\ \E p \in Range(last.val) : p.name = b.parameter_name
                /\ (Emitted(b.parameter_name).required = <<TRUE>>)
                       <=> (b.kind = "RouteBinder" \/ b.default = << >>)

\* C12 (amended): the Parameter of a path binder is marked required, and that
\* of a query, header or cookie binder is marked required exactly when the
\* binder is required and has no default value; otherwise required is unset.
C12_RequiredAndNoDefault ==
    \A handler \in Handlers :
        Parametrizing(handler) =>
            \A b \in LocatedBinders(handler) :
                /\ \E p \in Range(last.val) : p.name = b.parameter_name
                /\ Emitted(b.parameter_name).in_
                       = get_parameter_location_for_binder(b)[1]
                /\ Emitted(b.parameter_name).required =
                       IF b.kind = "RouteBinder" \/ (b.required /\ b.default = << >>)
                       THEN <<TRUE>> ELSE << >>

\* parameters of each kind: an optional path binder with a default (required),
\* a cookie binder with a default (not required)
C12_Witness ==
    /\ Parametrizing("get_multi")
    /\ Emitted("kind").required = <<TRUE>>
    /\ Emitted("theme").required = << >>

\* C13: get_parameters emits no parameter for a binder that maps to no path,
\* query, header or cookie location, and no parameter named request or
\* services, whatever the binder.
C13_IgnoredParameters ==
    \A handler \in Handlers :
        Parametrizing(handler) =>
            \A p \in Range(last.val) :
                /\ p.name \notin {"request", "services"}
                /\ \A b \in Range(binders[handler]) \ LocatedBinders(handler) :
                       b.parameter_name # p.name

(***************************************************************************)
(* The properties of the docstring merge.                                  *)
(***************************************************************************)
Merged(handler) ==
    /\ last.op = "_apply_docstring" /\ last.arg.n = handler
    /\ config.use_docstrings /\ docstring_info[handler] # << >>

\* the explicit parameter information of the docs, by name
ExplicitParameters(endpoint_docs) ==
    IF endpoint_docs.parameters = << >> THEN << >> ELSE endpoint_docs.parameters[1]

\* C14: after _merge_documentation, the summary, the description and every
\* parameter description that was not blank in the explicit docs before the merge
\* has the value it had before.
C14_MergeFillsBlanks ==
    \A handler \in Handlers :
        (Merged(handler) /\ last.val # << >>) =>
            LET before == last.val[1]
                after == docs[handler][1]
            IN /\ ~Blank(before.summary) => after.summary = before.summary
               /\ ~Blank(before.description) => after.description = before.description
               /\ \A i \in DOMAIN ExplicitParameters(before) :
                      LET p == ExplicitParameters(before)[i]
                      IN p.value.description # "" =>
                             GetItem(ExplicitParameters(after), p.key)[1].description
                                 = p.value.description

(***************************************************************************)
(* The properties of get_routes_docs on the handlers' EndpointDocs.        *)
(***************************************************************************)
RouteHandlers == {Routes[i].handler : i \in DOMAIN Routes}

\* the docstring of the handler is merged into its docs
DocstringApplies(handler) ==
    config.use_docstrings /\ docstring_info[handler] # << >>

\* the docs give an empty responses map and the handler declares a return type
InfersIntoDocs(before, handler) ==
    /\ before # << >>
    /\ before[1].responses = << << >> >>
    /\ return_type[handler] # << >>

LinkedOfItem == Alias(Cls("Linked"), <<Cls("Item")>>)

\* C16: resolving a generic record one of whose fields is a forward reference
\* does not raise; it warns, registers no schema and caches no Reference for the
\* instantiation, and returns a schema without type and properties.
C16_ForwardReferenceInGeneric ==
    Resolving(LinkedOfItem) =>
        /\ last.exc = "none"
        /\ [type |-> LinkedOfItem, field |-> "next"] \in warned
        /\ "LinkedOfItem" \notin DOMAIN schemas
        /\ LinkedOfItem \notin DOMAIN refs
        /\ \A key \in DOMAIN refs : refs[key] # RefTo("LinkedOfItem")
        /\ last.val = [Schema EXCEPT !.nullable = <<FALSE>>]

\* Linked[Item] resolved: the field before the forward reference registered Item
C16_Witness ==
    /\ Resolving(LinkedOfItem)
    /\ last.exc = "none"
    /\ "Item" \in last.added
    /\ "LinkedOfItem" \notin DOMAIN schemas

(***************************************************************************)
(* The properties of the content of a documented response.                 *)
(***************************************************************************)
\* the handlers documented with ResponseInfo entries that list content
ContentHandlers == {"get_explicit", "get_multi", "get_dup"}

\* the content lists of the handler's response docs, in the order of the docs
ContentLists(handler) ==
    LET data == InitialDocs[handler][1].responses[1]
    IN [i \in {j \in DOMAIN data : /\ data[j].value.k = "ResponseInfo"
                                   /\ data[j].value.content \notin {<< >>, << << >> >>}}
           |-> data[i].value.content[1]]

\* the first position of the list that repeats a media type listed before it
SecondOccurrence(contents) ==
    IF \E i \in DOMAIN contents :
          \E j \in 1..(i - 1) : contents[j].content_type = contents[i].content_type
    THEN <<CHOOSE i \in DOMAIN contents :
               /\ \E j \in 1..(i - 1) : contents[j].content_type = contents[i].content_type
               /\ \A k \in 1..(i - 1) :
                      \A j \in 1..(k - 1) :
                          contents[j].content_type # contents[k].content_type>>
    ELSE << >>

\* the names of the record classes the ContentInfo of the positions document
DocumentedNames(contents, positions) ==
    {contents[i].type[1].n : i \in {j \in positions : contents[j].type # << >>}}

\* C17: a content list that repeats a media type makes get_responses raise
\* DuplicatedContentTypeDocsException at the second occurrence: the entries
\* before it were built, that one and the later ones were not. A list of
\* distinct media types gives one MediaType per listed content type.
C17_DuplicatedContentType ==
    \A handler \in ContentHandlers :
        Responding(handler) =>
            \A i \in DOMAIN ContentLists(handler) :
                LET contents == ContentLists(handler)[i]
                    second == SecondOccurrence(contents)
                    data == InitialDocs[handler][1].responses[1]
                IN IF second # << >>
                   THEN /\ last.exc = "DuplicatedContentTypeDocsException"
                        /\ DocumentedNames(contents, 1..(second[1] - 1))
                               \subseteq DOMAIN schemas
                        /\ DocumentedNames(contents, second[1]..Len(contents))
                               \cap last.added = {}
                   ELSE last.exc = "none" =>
                        LET doc == last.val[response_status_to_str(data[i].key)]
                        IN /\ DOMAIN doc.content[1] =
                                  {contents[j].content_type : j \in DOMAIN contents}
                           /\ Cardinality(DOMAIN doc.content[1]) = Len(contents)
                           /\ \A j \in DOMAIN contents :
                                  "schema" \in DOMAIN doc.content[1][contents[j].content_type]

\* the second application/json entry of get_dup raised after Item was registered
C17_Witness ==
    /\ Responding("get_dup")
    /\ last.exc = "DuplicatedContentTypeDocsException"
    /\ "Item" \in last.added
    /\ "Other" \notin DOMAIN schemas

\* the three media types of get_multi each got their MediaType
C17_WitnessDistinct ==
    /\ Responding("get_multi")
    /\ last.exc = "none"
    /\ Cardinality(DOMAIN last.val["201"].content[1]) = 3

(***************************************************************************)
(* The properties of register_schema_for_type.                             *)
(***************************************************************************)
Registering(object_type) ==
    last.op = "register_schema_for_type" /\ last.arg = object_type /\ last.exc = "none"

\* C18: a second register_schema_for_type of a type returns the Reference the
\* first one returned and adds nothing to components.schemas, for a record as
\* for a type that resolves to a plain Schema.
C18_RegisterIdempotent ==
    \A object_type \in DOMAIN registered :
        (Registering(object_type) /\ last.again) =>
            /\ last.val = registered[object_type]
            /\ last.added = {}

(***************************************************************************)
(* The properties of generic records nested in generic records.            *)
(***************************************************************************)
OuterOfItem == Alias(Cls("Outer"), <<Cls("Item")>>)
OuterOfOther == Alias(Cls("Outer"), <<Cls("Other")>>)

\* the key of components.schemas a Reference points to
Target(reference) ==
    CHOOSE name \in DOMAIN schemas : RefTo(name) = reference

\* C19: Box[T] as the type of a field of Outer[T] is resolved per binding of the
\* outer record: Outer[Item] and Outer[Other] get different References for the
\* field, BoxOfItem and BoxOfOther, and the schema behind each documents the
\* field of type T with the type its own binding gives it.
C19_NestedGenericPerBinding ==
    ({OuterOfItem, OuterOfOther} \subseteq DOMAIN refs) =>
        LET of_item == schemas[Target(refs[OuterOfItem])].properties[1].inner
            of_other == schemas[Target(refs[OuterOfOther])].properties[1].inner
        IN /\ of_item # of_other
           /\ of_item = RefTo("BoxOfItem")
           /\ of_other = RefTo("BoxOfOther")
           /\ schemas[Target(of_item)].properties[1].item = RefTo("Item")
           /\ schemas[Target(of_other)].properties[1].item = RefTo("Other")

(***************************************************************************)
(* The properties of the pydantic models.                                  *)
(***************************************************************************)
\* the fields the model declares optional that are mapped to a scalar Schema
OptionalScalarFields(object_type) ==
    {f.name : f \in {g \in Range(PydanticModels[object_type.n]) :
                        /\ "type" \in DOMAIN g.schema
                        /\ g.schema.type \in {"string", "number", "integer"}
                        /\ g.field_info[1].allow_none}}

\* C20: a field of a pydantic model that is declared optional and mapped to a
\* scalar Schema is not in the required list of the object schema of the model.
C20_OptionalModelFieldNotRequired ==
    \A name \in DOMAIN PydanticModels :
        (Resolving(Cls(name)) /\ last.exc = "none") =>
            LET schema == schemas[Target(last.val)]
                required == IF schema.required = << >> THEN {}
                            ELSE Range(schema.required[1])
            IN OptionalScalarFields(Cls(name)) \cap required = {}

(***************************************************************************)
(* The consistency of the registry.                                        *)
(***************************************************************************)
\* the Reference names an entry of components.schemas
Registered(reference) ==
    \E name \in DOMAIN schemas : reference = RefTo(name)

\* every cached Reference and the Reference returned last name a stored schema
ReferencesRegistered ==
    /\ \A key \in DOMAIN refs : Registered(refs[key])
    /\ (last.op # "__init__" /\ last.exc = "none" /\ isReference(last.val))
           => Registered(last.val)

\* a step keeps every entry of components.schemas as it is
EntriesKept ==
    \A name \in DOMAIN schemas :
        name \in DOMAIN schemas' /\ schemas'[name] = schemas[name]

\* C21: after any sequence of resolutions and registrations, every Reference in
\* the cache, under a type or a name, and every Reference returned names an
\* entry of components.schemas, and no step replaces or removes an entry stored
\* under a name.
C21_RegistryConsistency == []ReferencesRegistered /\ [][EntriesKept]_vars

\* a second class Foo was registered beside the first, and an enumeration was
\* registered under a name of its own
C21_Witness ==
    /\ {"Foo", "Foo1", "Color", "Custom"} \subseteq DOMAIN schemas
    /\ schemas["Foo"] # schemas["Foo1"]
    /\ ClsOf(1, "Foo") \in DOMAIN refs /\ ClsOf(2, "Foo") \in DOMAIN refs
    /\ refs[ClsOf(1, "Foo")] # refs[ClsOf(2, "Foo")]
    /\ last.op = "register_schema_for_type" /\ last.added # {}

====
